---- MODULE Spec2Model ----
(***************************************************************************)
(* VMware Event-ID-2004 monitor: the poll loop of main.py, the guest probe *)
(* and restart decision of event_checker.py (EventChecker) and the restart *)
(* orchestrator of vm_manager.py (VMManager).                              *)
(*                                                                         *)
(* Time is counted in minutes.  Every datetime.now() is a nondeterministic *)
(* reading that is never smaller than the previous one.                    *)
(*                                                                         *)
(* Spec is the monitor as main.py runs it; SpecDryRun is the same monitor  *)
(* started with VM_DRY_RUN=true; SpecAnyPoint adds the interrupts that     *)
(* arrive inside _get_vm_name_from_path; SpecApi is the EventChecker       *)
(* object driven by an arbitrary caller; SpecRestart is one call of        *)
(* restart_vm under any configured delays, every command of which returns. *)
(***************************************************************************)
EXTENDS Integers, Sequences, FiniteSets

(***************************************************************************)
(* Bounds of the model                                                     *)
(***************************************************************************)
\* last minute the wall clock reaches
MaxClock == 2
\* largest number of VMs the hypervisor lists in one cycle
MaxFleet == 2
\* largest event count a guest reports
MaxEvents == 1
\* largest recency threshold (minutes) the decision is exercised with
MaxThreshold == 3
\* largest RESTART_DELAY and LOCK_FILE_CLEANUP_DELAY (seconds) an attempt is run with
MaxDelay == 13

(***************************************************************************)
(* Program constants                                                       *)
(***************************************************************************)
CHECK_INTERVAL == 60
RESTART_DELAY == 5
RESTART_TIME_THRESHOLD_MINUTES == 2
RESTART_MAX_RETRIES == 3
RESTART_RETRY_DELAY == 10
LOCK_FILE_CLEANUP_DELAY == 15
\* check_event_2004(vm_path, minutes_back=60)
MINUTES_BACK == 60
\* total_seconds() / 60
SECONDS_PER_MINUTE == 60
\* total_wait // 5
WAIT_SLICE == 5
\* time.sleep(15) before the retried start
EXTENDED_WAIT == 15
\* Config.DRY_RUN as config.py sets it
DRY_RUN == FALSE

(***************************************************************************)
(* Values                                                                  *)
(***************************************************************************)
Times == 0..MaxClock

\* a .vmx path  dir\stem.vmx
VMs == { [dir |-> "a", stem |-> "x"],
         [dir |-> "b", stem |-> "x"],
         [dir |-> "a", stem |-> "y"] }

\* self.latest_event_time: None, the string 'yyyy-MM-dd HH:mm:ss' of an instant,
\* or a string strptime rejects (a guest whose culture formats the time otherwise)
NoEvent == [kind |-> "none", t |-> 0]
TimeStr(t) == [kind |-> "ts", t |-> t]
Garbage == [kind |-> "garbage", t |-> 0]
\* a latest_time that json.loads does not yield as a str (a JSON number)
NonString == [kind |-> "nonstring", t |-> 0]
EventStrings == { TimeStr(t) : t \in Times } \cup { Garbage }

\* os.path.basename(vm_path).replace('.vmx', '')
get_vm_name_from_path(vm_path) == vm_path.stem

\* VMManager.get_vm_name: the same derivation
get_vm_name(vm_path) == vm_path.stem

\* no VM
NoVm == [dir |-> "", stem |-> ""]

VmNames == { get_vm_name_from_path(v) : v \in VMs }

(***************************************************************************)
(* Command runner.  The text of an output is modelled by the set of the    *)
(* substrings (of its lower-cased form) that the callers look for.         *)
(***************************************************************************)
Markers == { "is not powered on", "locked", "busy", "timeout" }

Texts == { {}, {"is not powered on"}, {"locked"}, {"busy"}, {"timeout"},
           {"is not powered on", "locked"} }

\* what subprocess.run does: exits with a code, times out, or cannot spawn
ProcOutcomes ==
    { [kind |-> "exit", code |-> 0, text |-> {}] }
    \cup { [kind |-> "exit", code |-> 1, text |-> t] : t \in Texts }
    \cup { [kind |-> "timeout", code |-> 1, text |-> {}] }
    \cup { [kind |-> "error", code |-> 1, text |-> {}] }

\* "Command timed out" holds none of the markers ("timed out" is not "timeout")
CommandTimedOut == {}

\* mutant: a command that timed out is reported as a success
run_vmrun_command_timeout_succeeds(o) ==
    IF o.kind = "exit"
    THEN [success |-> (o.code = 0), output |-> o.text]
    ELSE IF o.kind = "timeout"
         THEN [success |-> TRUE, output |-> CommandTimedOut]
         ELSE [success |-> FALSE, output |-> o.text]

\* _run_vmrun_command: (success, output)
run_vmrun_command(o) ==
    IF o.kind = "exit"
    THEN [success |-> (o.code = 0), output |-> o.text]
    ELSE IF o.kind = "timeout"
         THEN [success |-> FALSE, output |-> CommandTimedOut]
         ELSE [success |-> FALSE, output |-> o.text]

\* needle in output.lower()
Contains(output, needle) == needle \in output


(***************************************************************************)
(* get_powered_on_vms: the .vmx lines of the output of `list`, in order;   *)
(* [] when the command failed.                                             *)
(***************************************************************************)
RECURSIVE Injective(_)
Injective(q) ==
    IF Len(q) <= 1 THEN TRUE
    ELSE /\ \A k \in 2..Len(q) : q[k] # q[1]
         /\ Injective(Tail(q))

\* the hosts the monitor runs on: two VMs with different names, or two VMs whose
\* .vmx files have the same name in different directories
Inventories ==
    { { [dir |-> "a", stem |-> "x"], [dir |-> "a", stem |-> "y"] },
      { [dir |-> "a", stem |-> "x"], [dir |-> "b", stem |-> "x"] } }

\* the listings the hypervisor can answer on a host: no VM twice, at most MaxFleet VMs
VmLists(host) ==
    { q \in UNION { [1..n -> host] : n \in 0..MaxFleet } : Injective(q) }

get_powered_on_vms(r, listing) ==
    IF ~r.success THEN << >> ELSE listing

(***************************************************************************)
(* Restart decision and restart history (EventChecker)                     *)
(***************************************************************************)
\* vm_restart_times.get(vm_name) is not None
HasRestart(times, vm_name) == vm_name \in DOMAIN times

\* mutant: the recorded restart must be strictly after the event to count
should_restart_vm_strictly_after(latest, times, vm, now, threshold_minutes) ==
    IF latest.kind = "none" THEN "no_event"
    ELSE IF latest.kind = "nonstring" THEN "raised"
    ELSE IF latest.kind # "ts" THEN "parse_error"
    ELSE IF (now - latest.t) * SECONDS_PER_MINUTE > threshold_minutes * SECONDS_PER_MINUTE
         THEN "too_old"
         ELSE IF HasRestart(times, get_vm_name_from_path(vm))
                 /\ times[get_vm_name_from_path(vm)] > latest.t
              THEN "already"
              ELSE "restart"

\* mutant: an event of exactly the threshold age is too old already
should_restart_vm_stale_at_threshold(latest, times, vm, now, threshold_minutes) ==
    IF latest.kind = "none" THEN "no_event"
    ELSE IF latest.kind = "nonstring" THEN "raised"
    ELSE IF latest.kind # "ts" THEN "parse_error"
    ELSE IF (now - latest.t) * SECONDS_PER_MINUTE >= threshold_minutes * SECONDS_PER_MINUTE
         THEN "too_old"
         ELSE IF HasRestart(times, get_vm_name_from_path(vm))
                 /\ times[get_vm_name_from_path(vm)] >= latest.t
              THEN "already"
              ELSE "restart"

\* mutant: any recorded restart of the VM suppresses the restart
should_restart_vm_any_record(latest, times, vm, now, threshold_minutes) ==
    IF latest.kind = "none" THEN "no_event"
    ELSE IF latest.kind = "nonstring" THEN "raised"
    ELSE IF latest.kind # "ts" THEN "parse_error"
    ELSE IF (now - latest.t) * SECONDS_PER_MINUTE > threshold_minutes * SECONDS_PER_MINUTE
         THEN "too_old"
         ELSE IF HasRestart(times, get_vm_name_from_path(vm))
              THEN "already"
              ELSE "restart"

\* should_restart_vm, with the branch it returned from:
\*   "no_event", "too_old", "already", "parse_error"  -> False
\*   "restart"                                        -> True
\*   "raised"   -> strptime raised TypeError, which except ValueError does not catch
should_restart_vm(latest, times, vm, now, threshold_minutes) ==
    IF latest.kind = "none" THEN "no_event"
    ELSE IF latest.kind = "nonstring" THEN "raised"
    ELSE IF latest.kind # "ts" THEN "parse_error"
    ELSE LET event_time == latest.t
             total_seconds == (now - event_time) * SECONDS_PER_MINUTE
             vm_name == get_vm_name_from_path(vm)
         IN  IF total_seconds > threshold_minutes * SECONDS_PER_MINUTE
             THEN "too_old"
             ELSE IF HasRestart(times, vm_name) /\ times[vm_name] >= event_time
                  THEN "already"
                  ELSE "restart"

\* mutant: the history is keyed by something other than the name the decision reads
mark_vm_restarted_other_key(times, vm, now) ==
    [n \in (DOMAIN times) \cup {vm.dir} |-> IF n = vm.dir THEN now ELSE times[n]]

\* mutant: the history is replaced by the one new entry
mark_vm_restarted_replaces_history(times, vm, now) ==
    [n \in { get_vm_name_from_path(vm) } |-> now]

\* mark_vm_restarted: vm_restart_times[vm_name] = datetime.now()
mark_vm_restarted(times, vm, now) ==
    LET vm_name == get_vm_name_from_path(vm)
    IN  [n \in (DOMAIN times) \cup {vm_name} |->
            IF n = vm_name THEN now ELSE times[n]]

(***************************************************************************)
(* Guest probe: the artifact the guest script writes and the host reads    *)
(***************************************************************************)
\* the 'None' string the script writes when it found no event
SentinelNone == [kind |-> "sentinel", t |-> 0]

\* the event instants the guest script can report for the window it is given:
\* Get-EventLog -After '{start_str}' -Before '{end_str}'
InWindow(start_time, end_time) ==
    { u \in Times : start_time < u /\ u < end_time }

\* what open/json.loads yield for a probe whose window is (start_time, end_time):
\* an unreadable file, or {count, latest_time} as the script computes them
Artifacts(start_time, end_time) ==
    { [readable |-> FALSE, count |-> 0, latest_time |-> SentinelNone],
      [readable |-> TRUE, count |-> 0, latest_time |-> SentinelNone] }
    \cup { [readable |-> TRUE, count |-> c, latest_time |-> s] :
             c \in 1..MaxEvents,
             s \in { TimeStr(u) : u \in InWindow(start_time, end_time) }
                   \cup (IF InWindow(start_time, end_time) # {}
                         THEN { Garbage, NonString } ELSE {}) }

\* self.latest_event_time = latest_time if latest_time != 'None' else None
store_latest(latest_time) ==
    IF latest_time # SentinelNone THEN latest_time ELSE NoEvent

(***************************************************************************)
(* Restart orchestrator: the branches of _restart_vm_single_attempt        *)
(***************************************************************************)
Max(a, b) == IF a >= b THEN a ELSE b

\* mutant: no floor of one interval
wait_intervals_no_floor(total) == total \div WAIT_SLICE

\* wait_intervals = max(1, total_wait // 5)
wait_intervals(total) == Max(1, total \div WAIT_SLICE)

\* a duration in seconds as the fraction num / den
Seconds(n) == [num |-> n, den |-> 1]
Plus(a, b) == [num |-> a.num * b.den + b.num * a.den, den |-> a.den * b.den]

\* interval_time = total_wait / wait_intervals   (true division)
interval_time(total) == [num |-> total, den |-> wait_intervals(total)]

\* if i > 0 and (i % 2 == 0)
probe_after(i) == i > 0 /\ i % 2 = 0

\* mutant: the lock/busy test comes before the 'not powered on' test
soft_stop_branch_lock_first(r) ==
    IF r.success THEN "wait"
    ELSE IF Contains(r.output, "locked") \/ Contains(r.output, "busy") THEN "hard_stop"
    ELSE IF Contains(r.output, "is not powered on") THEN "wait"
    ELSE "hard_stop"

\* after the soft stop: "wait" (stopped), or "hard_stop"
soft_stop_branch(r) ==
    IF r.success THEN "wait"
    ELSE IF Contains(r.output, "is not powered on") THEN "wait"
    ELSE IF Contains(r.output, "locked") \/ Contains(r.output, "busy") THEN "hard_stop"
    ELSE "hard_stop"

\* mutant: the result of the hard stop is not looked at
hard_stop_branch_unchecked(r) == "wait"

\* mutant: the hard stop tolerates 'not powered on' as the soft stop does
hard_stop_branch_tolerant(r) ==
    IF r.success THEN "wait"
    ELSE IF Contains(r.output, "is not powered on") THEN "wait"
    ELSE "attempt_failed"

\* after the hard stop: "wait", or the attempt returns False
hard_stop_branch(r) ==
    IF r.success THEN "wait" ELSE "attempt_failed"

\* mutant: a timeout response to the first start is retried like a lock
start_branch_retries_timeout(r) ==
    IF r.success THEN "attempt_ok"
    ELSE IF Contains(r.output, "locked") \/ Contains(r.output, "busy") THEN "extended_wait"
    ELSE IF Contains(r.output, "timeout") THEN "extended_wait"
    ELSE "attempt_failed"

\* after start ... nogui: returns True, waits 15 s and retries, or returns False
start_branch(r) ==
    IF r.success THEN "attempt_ok"
    ELSE IF Contains(r.output, "locked") \/ Contains(r.output, "busy") THEN "extended_wait"
    ELSE IF Contains(r.output, "timeout") THEN "attempt_failed"
    ELSE "attempt_failed"

\* mutant: a retry that is still locked waits and retries again
start_retry_branch_again(r) ==
    IF r.success THEN "attempt_ok"
    ELSE IF Contains(r.output, "locked") \/ Contains(r.output, "busy") THEN "extended_wait"
    ELSE "attempt_failed"

\* after the retried start
start_retry_branch(r) ==
    IF r.success THEN "attempt_ok" ELSE "attempt_failed"


(***************************************************************************)
(* State                                                                   *)
(***************************************************************************)
VARIABLES
    pc,                 \* the statement the (single) thread is at
    threshold,          \* Config.RESTART_TIME_THRESHOLD_MINUTES
    restart_delay,      \* Config.RESTART_DELAY
    cleanup_delay,      \* Config.LOCK_FILE_CLEANUP_DELAY
    dry_run,            \* Config.DRY_RUN
    inventory,          \* the VMs of the host, of which `vmrun list` shows those powered on
    interrupted,        \* history: a KeyboardInterrupt has been raised in the process
    clock,              \* the last reading of datetime.now(), in minutes
    powered_on_vms,     \* main: the list of this cycle
    idx,                \* main: position in powered_on_vms (0: not in the loop)
    latest_event_time,  \* EventChecker.latest_event_time
    stored_by,          \* history: the VM of this pass of the for loop whose probe
                        \* assigned latest_event_time (NoVm: no probe of this pass has)
    vm_restart_times,   \* EventChecker.vm_restart_times: vm_name -> instant
    found,              \* what check_event_2004 returned ("none" before it returns)
    decision,           \* the branch should_restart_vm returned from ("none" before)
    attempt,            \* restart_vm: the loop variable
    wait_i,             \* _restart_vm_single_attempt: i of the wait loop
    output,             \* _restart_vm_single_attempt: the local `output`
    slept,              \* history: the time slept in the wait loop of the running attempt
    result,             \* what restart_vm returned ("none" before it returns)
    cmds,               \* history: commands and sleeps of the running probe / attempt
    methods,            \* history: the probe strategies tried by the running probe
    fails,              \* history: attempts of the running restart_vm that returned False
    retry_sleeps,       \* history: retry delays slept by the running restart_vm
    history_before,     \* history: vm_restart_times when restart_vm was called
    marked_at,          \* history: vm_path -> instant of its last mark_vm_restarted
    restarted_for,      \* history: vm_path -> event instants restart_vm returned True for
    gave_up             \* history: the VM and event instant restart_vm last returned False for

vars == << pc, threshold, restart_delay, cleanup_delay, dry_run, inventory, interrupted, clock, powered_on_vms, idx, latest_event_time, stored_by, vm_restart_times,
           found, decision, attempt, wait_i, output, slept, result, cmds, methods, fails,
           retry_sleeps, history_before, marked_at, restarted_for, gave_up >>

checker_vars == << latest_event_time, vm_restart_times, marked_at >>
loop_vars == << powered_on_vms, idx >>
probe_vars == << found, methods, stored_by >>
restart_vars == << attempt, wait_i, output, slept, result, fails, retry_sleeps, history_before >>

\* total_wait = Config.RESTART_DELAY + Config.LOCK_FILE_CLEANUP_DELAY
total_wait == restart_delay + cleanup_delay

\* the VM main is processing
vm_path == powered_on_vms[idx]

\* an entry of cmds
Entry(cmd, r) == [cmd |-> cmd, success |-> r.success]
Slept(what) == [cmd |-> what, success |-> TRUE]

\* datetime.now(): not before the last reading
Now == { n \in Times : n >= clock }

\* main: vm_manager = VMManager(); event_checker = EventChecker()
Constructed ==
    /\ interrupted = FALSE
    /\ clock = 0
    /\ powered_on_vms = << >>
    /\ idx = 0
    /\ latest_event_time = NoEvent
    /\ stored_by = NoVm
    /\ vm_restart_times = << >>
    /\ found = "none"
    /\ decision = "none"
    /\ attempt = 0
    /\ wait_i = 0
    /\ output = {}
    /\ slept = Seconds(0)
    /\ result = "none"
    /\ cmds = << >>
    /\ methods = << >>
    /\ fails = 0
    /\ retry_sleeps = 0
    /\ history_before = << >>
    /\ marked_at = << >>
    /\ restarted_for = [v \in VMs |-> {}]
    /\ gave_up = {}

Init ==
    /\ pc = "cycle"
    /\ threshold = RESTART_TIME_THRESHOLD_MINUTES
    /\ restart_delay = RESTART_DELAY
    /\ cleanup_delay = LOCK_FILE_CLEANUP_DELAY
    /\ dry_run = DRY_RUN
    /\ inventory \in Inventories
    /\ Constructed

(***************************************************************************)
(* main: the poll loop                                                     *)
(***************************************************************************)
\* powered_on_vms = vm_manager.get_powered_on_vms(); if not powered_on_vms: ...
GetPoweredOnVms ==
    /\ pc = "cycle"
    /\ UNCHANGED << threshold, restart_delay, cleanup_delay, dry_run, inventory, interrupted, restarted_for, gave_up >>
    /\ \E o \in ProcOutcomes, listing \in VmLists(inventory) :
         LET vms == get_powered_on_vms(run_vmrun_command(o), listing)
         IN  /\ powered_on_vms' = vms
             /\ idx' = IF vms = << >> THEN 0 ELSE 1
             /\ pc' = IF vms = << >> THEN "sleep" ELSE "check_event"
    /\ cmds' = << >>
    /\ UNCHANGED << clock, checker_vars, probe_vars, decision, restart_vars >>

\* time.sleep(Config.CHECK_INTERVAL), then the next cycle
Sleep ==
    /\ pc = "sleep"
    /\ UNCHANGED << threshold, restart_delay, cleanup_delay, dry_run, inventory, interrupted, restarted_for, gave_up >>
    /\ \E n \in Times :
         /\ n * SECONDS_PER_MINUTE >= clock * SECONDS_PER_MINUTE + CHECK_INTERVAL
         /\ clock' = n
    /\ pc' = "cycle"
    /\ powered_on_vms' = << >>
    /\ idx' = 0
    /\ UNCHANGED << checker_vars, probe_vars, decision, restart_vars, cmds >>

\* the end of the body of the for loop: the next VM, or the cycle is complete
NextVm ==
    /\ pc = "vm_done"
    /\ UNCHANGED << threshold, restart_delay, cleanup_delay, dry_run, inventory, interrupted, restarted_for, gave_up >>
    /\ IF idx < Len(powered_on_vms)
       THEN /\ idx' = idx + 1
            /\ pc' = "check_event"
       ELSE /\ idx' = 0
            /\ pc' = "sleep"
    /\ found' = "none"
    /\ methods' = << >>
    /\ stored_by' = NoVm
    /\ decision' = "none"
    /\ attempt' = 0
    /\ wait_i' = 0
    /\ output' = {}
    /\ slept' = Seconds(0)
    /\ result' = "none"
    /\ fails' = 0
    /\ retry_sleeps' = 0
    /\ history_before' = << >>
    /\ cmds' = << >>
    /\ UNCHANGED << clock, powered_on_vms, checker_vars >>

(***************************************************************************)
(* EventChecker.check_event_2004                                           *)
(***************************************************************************)
\* subprocess.run of the probe: returncode == 0, as opposed to a non-zero code,
\* TimeoutExpired or any other exception (all of which make the method return None)
guest_command(o) ==
    [success |-> (o.kind = "exit" /\ o.code = 0), output |-> {}]

\* mutant: the return code of a probe command is not looked at
script_step_unchecked(r, next) == next

\* if result.returncode != 0: return None   (and the except clauses: return None);
\* a method that returned None makes check_event_2004 try the next one
script_step(r, next) == IF r.success THEN next ELSE "fallback"

\* mutant: the next method is tried although this one answered
after_method_tries_next(res) == "fallback"

\* check_event_2004: result = method(...); if result is not None: return result
\* (res is "true", "false", or "none" for None)
after_method(res) == IF res # "none" THEN "probed" ELSE "fallback"

\* end_time = datetime.now(); _check_via_vmrun_script, step 1: runProgramInGuest
VmrunWrite ==
    /\ pc = "check_event"
    /\ UNCHANGED << threshold, restart_delay, cleanup_delay, dry_run, inventory, interrupted, restarted_for, gave_up >>
    /\ \E n \in Now : clock' = n
    /\ \E o \in ProcOutcomes :
         LET r == guest_command(o)
         IN  /\ cmds' = << Entry("runProgramInGuest", r) >>
             /\ pc' = script_step(r, "vmrun_copy")
    /\ methods' = << "vmrun_script" >>
    /\ UNCHANGED << loop_vars, checker_vars, found, stored_by, decision, restart_vars >>

\* step 2: copyFileFromGuestToHost
VmrunCopy ==
    /\ pc = "vmrun_copy"
    /\ UNCHANGED << threshold, restart_delay, cleanup_delay, dry_run, inventory, interrupted, restarted_for, gave_up >>
    /\ \E o \in ProcOutcomes :
         LET r == guest_command(o)
         IN  /\ cmds' = Append(cmds, Entry("copyFileFromGuestToHost", r))
             /\ pc' = script_step(r, "vmrun_read")
    /\ UNCHANGED << clock, loop_vars, checker_vars, probe_vars, decision, restart_vars >>

\* step 3: read and parse the copied file; the window ends at end_time, which is
\* the last reading of the clock
VmrunRead ==
    /\ pc = "vmrun_read"
    /\ UNCHANGED << threshold, restart_delay, cleanup_delay, dry_run, inventory, interrupted, restarted_for, gave_up >>
    /\ \E a \in Artifacts(clock - MINUTES_BACK, clock) :
         IF a.readable
         THEN /\ latest_event_time' = store_latest(a.latest_time)
              /\ stored_by' = vm_path
              /\ found' = IF a.count > 0 THEN "true" ELSE "false"
              /\ pc' = after_method(IF a.count > 0 THEN "true" ELSE "false")
         ELSE /\ pc' = after_method("none")
              /\ UNCHANGED << latest_event_time, stored_by, found >>
    /\ UNCHANGED << clock, loop_vars, vm_restart_times, marked_at, methods, decision,
                    restart_vars, cmds >>

\* _check_via_simple_fallback: return False
SimpleFallback ==
    /\ pc = "fallback"
    /\ UNCHANGED << threshold, restart_delay, cleanup_delay, dry_run, inventory, interrupted, restarted_for, gave_up >>
    /\ methods' = Append(methods, "simple_fallback")
    /\ found' = "false"
    /\ pc' = "probed"
    /\ UNCHANGED << clock, loop_vars, checker_vars, stored_by, decision, restart_vars, cmds >>

\* mutant: the decision is evaluated whatever the probe returned
after_check_always(f) == "should_restart"

\* if event_checker.check_event_2004(vm_path, minutes_back=60): ... should_restart_vm
after_check(f) == IF f = "true" THEN "should_restart" ELSE "vm_done"

\* main: if event_checker.check_event_2004(vm_path, minutes_back=60):
AfterProbe ==
    /\ pc = "probed"
    /\ UNCHANGED << threshold, restart_delay, cleanup_delay, dry_run, inventory, interrupted, restarted_for, gave_up >>
    /\ pc' = after_check(found)
    /\ UNCHANGED << clock, loop_vars, checker_vars, probe_vars, decision,
                    restart_vars, cmds >>

(***************************************************************************)
(* EventChecker.should_restart_vm and mark_vm_restarted, called by main    *)
(***************************************************************************)
ShouldRestartVm ==
    /\ pc = "should_restart"
    /\ UNCHANGED << threshold, restart_delay, cleanup_delay, dry_run, inventory, interrupted, restarted_for, gave_up >>
    /\ \E n \in Now :
         /\ clock' = n
         /\ decision' = should_restart_vm(latest_event_time, vm_restart_times,
                                           vm_path, n, threshold)
    /\ pc' = "decided"
    /\ UNCHANGED << loop_vars, checker_vars, probe_vars, restart_vars, cmds >>

\* mutant: an exception of should_restart_vm leaves the for loop and main
after_decision_unhandled(d) ==
    IF d = "restart" THEN "restart_vm"
    ELSE IF d = "raised" THEN "crashed"
    ELSE "vm_done"

\* main: if event_checker.should_restart_vm(vm_path): ... else: ...
\*       except Exception as e: ...; continue
after_decision(d) ==
    IF d = "restart" THEN "restart_vm"
    ELSE IF d = "raised" THEN "vm_done"
    ELSE "vm_done"

\* main: if event_checker.should_restart_vm(vm_path): vm_manager.restart_vm(vm_path)
AfterDecision ==
    /\ pc = "decided"
    /\ UNCHANGED << threshold, restart_delay, cleanup_delay, dry_run, inventory, interrupted, restarted_for, gave_up >>
    /\ pc' = after_decision(decision)
    /\ IF decision = "restart"
       THEN history_before' = vm_restart_times
       ELSE UNCHANGED history_before
    /\ UNCHANGED << clock, loop_vars, checker_vars, probe_vars, decision, attempt,
                    wait_i, output, slept, result, fails, retry_sleeps, cmds >>

\* mutant: the history is updated whatever restart_vm returned
after_restart_always_marks(res) == "mark"

\* main: if vm_manager.restart_vm(vm_path): event_checker.mark_vm_restarted(vm_path)
after_restart(res) == IF res = "true" THEN "mark" ELSE "vm_done"

AfterRestart ==
    /\ pc = "restart_returned"
    /\ UNCHANGED << threshold, restart_delay, cleanup_delay, dry_run, inventory, interrupted, restarted_for, gave_up >>
    /\ pc' = after_restart(result)
    /\ UNCHANGED << clock, loop_vars, checker_vars, probe_vars, decision,
                    restart_vars, cmds >>

MarkVmRestarted ==
    /\ pc = "mark"
    /\ UNCHANGED << threshold, restart_delay, cleanup_delay, dry_run, inventory, interrupted, restarted_for, gave_up >>
    /\ \E n \in Now :
         /\ clock' = n
         /\ vm_restart_times' = mark_vm_restarted(vm_restart_times, vm_path, n)
         /\ marked_at' = [v \in (DOMAIN marked_at) \cup {vm_path} |->
                             IF v = vm_path THEN n ELSE marked_at[v]]
    /\ pc' = "vm_done"
    /\ UNCHANGED << loop_vars, latest_event_time, probe_vars, decision,
                    restart_vars, cmds >>


(***************************************************************************)
(* VMManager.restart_vm and _restart_vm_single_attempt                     *)
(***************************************************************************)
main_vars == << clock, loop_vars, checker_vars, probe_vars, decision, history_before >>

\* history: restart_vm returns True for vm_path while the latest event is the stored one
record_restart(branch) ==
    IF branch = "attempt_ok" /\ latest_event_time.kind = "ts"
    THEN [restarted_for EXCEPT ![vm_path] = @ \cup {latest_event_time.t}]
    ELSE restarted_for

\* history: restart_vm returns False for vm_path while the latest event is the stored one
record_failure ==
    IF latest_event_time.kind = "ts"
    THEN { [vm |-> vm_path, t |-> latest_event_time.t] }
    ELSE gave_up

\* mutant: an attempt that failed on its hard stop ends the retries
more_attempts_unless_hard_stop_failed(a) ==
    /\ a < RESTART_MAX_RETRIES
    /\ ~(Len(cmds) > 0 /\ cmds[Len(cmds)].cmd = "stop_hard")

\* mutant: one attempt too many
more_attempts_off_by_one(a) == a <= RESTART_MAX_RETRIES

\* range(1, Config.RESTART_MAX_RETRIES + 1) has a value after `attempt`
more_attempts(a) == a < RESTART_MAX_RETRIES

\* for attempt in range(1, Config.RESTART_MAX_RETRIES + 1): ... ; return False
RestartLoop ==
    /\ pc = "restart_vm"
    /\ UNCHANGED << threshold, restart_delay, cleanup_delay, dry_run, inventory, interrupted, restarted_for >>
    /\ IF more_attempts(attempt)
       THEN /\ attempt' = attempt + 1
            /\ pc' = "soft_stop"
            /\ cmds' = << >>
            /\ slept' = Seconds(0)
            /\ UNCHANGED << result, gave_up >>
       ELSE /\ result' = "false"
            /\ pc' = "restart_returned"
            /\ gave_up' = record_failure
            /\ UNCHANGED << attempt, cmds, slept >>
    /\ UNCHANGED << main_vars, wait_i, output, fails, retry_sleeps >>

\* mutant: the wait loop is left after its first interval
after_interval_first_only(i) == "start_nogui"

\* for i in range(int(wait_intervals)): the pc after iteration i (-1: on entry)
after_interval(i) ==
    IF i + 1 < wait_intervals(total_wait) THEN "wait" ELSE "start_nogui"

\* the stop phase is over: the first test of the wait loop
enter_wait(branch) == IF branch = "wait" THEN after_interval(-1) ELSE branch

\* step 1: success, output = self._run_vmrun_command(["stop", vm_path, "soft", "nogui"])
SoftStop ==
    /\ pc = "soft_stop"
    /\ UNCHANGED << threshold, restart_delay, cleanup_delay, dry_run, inventory, interrupted, restarted_for, gave_up >>
    /\ \E o \in ProcOutcomes :
         LET r == run_vmrun_command(o)
         IN  /\ cmds' = Append(cmds, Entry("stop_soft", r))
             /\ output' = r.output
             /\ pc' = enter_wait(soft_stop_branch(r))
    /\ wait_i' = 0
    /\ UNCHANGED << main_vars, attempt, slept, result, fails, retry_sleeps >>

\* success, output = self._run_vmrun_command(["stop", vm_path, "hard", "nogui"])
HardStop ==
    /\ pc = "hard_stop"
    /\ UNCHANGED << threshold, restart_delay, cleanup_delay, dry_run, inventory, interrupted, restarted_for, gave_up >>
    /\ \E o \in ProcOutcomes :
         LET r == run_vmrun_command(o)
         IN  /\ cmds' = Append(cmds, Entry("stop_hard", r))
             /\ output' = r.output
             /\ pc' = enter_wait(hard_stop_branch(r))
    /\ UNCHANGED << main_vars, attempt, wait_i, slept, result, fails, retry_sleeps >>

\* step 2, iteration i: time.sleep(interval_time), then perhaps the `list` probe
WaitInterval ==
    /\ pc = "wait"
    /\ UNCHANGED << threshold, restart_delay, cleanup_delay, dry_run, inventory, interrupted, restarted_for, gave_up >>
    /\ cmds' = Append(cmds, Slept("sleep_interval"))
    /\ slept' = Plus(slept, interval_time(total_wait))
    /\ IF probe_after(wait_i)
       THEN /\ pc' = "wait_probe"
            /\ UNCHANGED wait_i
       ELSE /\ pc' = after_interval(wait_i)
            /\ wait_i' = wait_i + 1
    /\ UNCHANGED << main_vars, attempt, output, result, fails, retry_sleeps >>

\* mutant: a probe that fails ends the attempt
after_probe_fatal(r, i) ==
    IF r.success THEN after_interval(i) ELSE "attempt_failed"

\* if test_success: print(...)   -- the loop goes on either way
after_probe(r, i) == after_interval(i)

\* test_success, test_output = self._run_vmrun_command(["list"])
WaitProbe ==
    /\ pc = "wait_probe"
    /\ UNCHANGED << threshold, restart_delay, cleanup_delay, dry_run, inventory, interrupted, restarted_for, gave_up >>
    /\ \E o \in ProcOutcomes :
         LET r == run_vmrun_command(o)
         IN  /\ cmds' = Append(cmds, Entry("list", r))
             /\ pc' = after_probe(r, wait_i)
    /\ wait_i' = wait_i + 1
    /\ UNCHANGED << main_vars, attempt, output, slept, result, fails, retry_sleeps >>

\* where the attempt's return takes restart_vm
attempt_returns(branch) ==
    IF branch = "attempt_ok" THEN "restart_returned" ELSE branch

\* step 3: success, output = self._run_vmrun_command(["start", vm_path, "nogui"])
StartNogui ==
    /\ pc = "start_nogui"
    /\ UNCHANGED << threshold, restart_delay, cleanup_delay, dry_run, inventory, interrupted, gave_up >>
    /\ \E o \in ProcOutcomes :
         LET r == run_vmrun_command(o)
         IN  /\ cmds' = Append(cmds, Entry("start_nogui", r))
             /\ output' = r.output
             /\ pc' = attempt_returns(start_branch(r))
             /\ result' = IF start_branch(r) = "attempt_ok" THEN "true" ELSE result
             /\ restarted_for' = record_restart(start_branch(r))
    /\ UNCHANGED << main_vars, attempt, wait_i, slept, fails, retry_sleeps >>

\* time.sleep(15)
ExtendedWait ==
    /\ pc = "extended_wait"
    /\ UNCHANGED << threshold, restart_delay, cleanup_delay, dry_run, inventory, interrupted, restarted_for, gave_up >>
    /\ cmds' = Append(cmds, Slept("sleep_extended"))
    /\ pc' = "start_retry"
    /\ UNCHANGED << main_vars, attempt, wait_i, output, slept, result, fails, retry_sleeps >>

\* success, output = self._run_vmrun_command(["start", vm_path])
StartRetry ==
    /\ pc = "start_retry"
    /\ UNCHANGED << threshold, restart_delay, cleanup_delay, dry_run, inventory, interrupted, gave_up >>
    /\ \E o \in ProcOutcomes :
         LET r == run_vmrun_command(o)
         IN  /\ cmds' = Append(cmds, Entry("start", r))
             /\ output' = r.output
             /\ pc' = attempt_returns(start_retry_branch(r))
             /\ result' = IF start_retry_branch(r) = "attempt_ok" THEN "true" ELSE result
             /\ restarted_for' = record_restart(start_retry_branch(r))
    /\ UNCHANGED << main_vars, attempt, wait_i, slept, fails, retry_sleeps >>

\* mutant: the retry delay is slept after every failed attempt
retry_delay_due_always(a) == TRUE

\* if attempt < Config.RESTART_MAX_RETRIES:
retry_delay_due(a) == a < RESTART_MAX_RETRIES

\* restart_vm after an attempt returned False:
\* if attempt < Config.RESTART_MAX_RETRIES: time.sleep(Config.RESTART_RETRY_DELAY)
RetryDelay ==
    /\ pc = "attempt_failed"
    /\ UNCHANGED << threshold, restart_delay, cleanup_delay, dry_run, inventory, interrupted, restarted_for, gave_up >>
    /\ fails' = fails + 1
    /\ retry_sleeps' = IF retry_delay_due(attempt)
                       THEN retry_sleeps + 1 ELSE retry_sleeps
    /\ output' = {}
    /\ pc' = "restart_vm"
    /\ UNCHANGED << main_vars, attempt, wait_i, slept, result, cmds >>

(***************************************************************************)
(* KeyboardInterrupt: main leaves the loop from wherever it is             *)
(***************************************************************************)
Interrupt ==
    /\ pc # "stopped"
    /\ UNCHANGED << threshold, restart_delay, cleanup_delay, dry_run, inventory, restarted_for, gave_up >>
    /\ interrupted' = TRUE
    /\ pc' = "stopped"
    \* the frames of main and of what it called are gone
    /\ powered_on_vms' = << >>
    /\ idx' = 0
    /\ found' = "none"
    /\ methods' = << >>
    /\ stored_by' = NoVm
    /\ decision' = "none"
    /\ attempt' = 0
    /\ wait_i' = 0
    /\ output' = {}
    /\ slept' = Seconds(0)
    /\ result' = "none"
    /\ fails' = 0
    /\ retry_sleeps' = 0
    /\ history_before' = << >>
    /\ cmds' = << >>
    /\ UNCHANGED << clock, checker_vars >>

Next ==
    \/ GetPoweredOnVms
    \/ Sleep
    \/ NextVm
    \/ VmrunWrite
    \/ VmrunCopy
    \/ VmrunRead
    \/ SimpleFallback
    \/ AfterProbe
    \/ ShouldRestartVm
    \/ AfterDecision
    \/ AfterRestart
    \/ MarkVmRestarted
    \/ RestartLoop
    \/ SoftStop
    \/ HardStop
    \/ WaitInterval
    \/ WaitProbe
    \/ StartNogui
    \/ ExtendedWait
    \/ StartRetry
    \/ RetryDelay
    \/ Interrupt

Spec == Init /\ [][Next]_vars

(***************************************************************************)
(* A KeyboardInterrupt raised while _get_vm_name_from_path runs is caught  *)
(* by its bare `except:`, which returns vm_path: main never sees it.  Here *)
(* for the calls whose result is only logged or used to name the capture   *)
(* file (check_event_2004, _check_via_vmrun_script and                     *)
(* _check_via_simple_fallback); Spec is the monitor whose interrupts all   *)
(* arrive outside that function.                                           *)
(***************************************************************************)
SwallowedInterrupt ==
    /\ pc \in { "check_event", "fallback" }
    /\ interrupted' = TRUE
    /\ UNCHANGED << pc, threshold, restart_delay, cleanup_delay, dry_run, inventory, clock, loop_vars, checker_vars, probe_vars,
                    decision, restart_vars, cmds, restarted_for, gave_up >>

NextAnyPoint ==
    \/ Next
    \/ SwallowedInterrupt

SpecAnyPoint == Init /\ [][NextAnyPoint]_vars

\* the monitor started with VM_DRY_RUN=true in its environment
\* (Config.load_from_env: cls.DRY_RUN = os.getenv('VM_DRY_RUN', 'false').lower() == 'true')
InitDryRun ==
    /\ pc = "cycle"
    /\ threshold = RESTART_TIME_THRESHOLD_MINUTES
    /\ restart_delay = RESTART_DELAY
    /\ cleanup_delay = LOCK_FILE_CLEANUP_DELAY
    /\ dry_run = TRUE
    /\ inventory \in Inventories
    /\ Constructed

SpecDryRun == InitDryRun /\ [][Next]_vars


(***************************************************************************)
(* The EventChecker object on its own: a caller that sets the latest event *)
(* time as a probe may, and calls should_restart_vm and mark_vm_restarted  *)
(* for any VM, at any time and in any order, under any threshold.          *)
(***************************************************************************)
Thresholds == 0..MaxThreshold

InitApi ==
    /\ pc = "api"
    /\ threshold \in Thresholds
    /\ restart_delay = RESTART_DELAY
    /\ cleanup_delay = LOCK_FILE_CLEANUP_DELAY
    /\ dry_run = DRY_RUN
    /\ inventory = VMs
    /\ Constructed

api_frame == << threshold, restart_delay, cleanup_delay, dry_run, inventory, interrupted, found, methods, stored_by, attempt, wait_i, output, slept, result, cmds,
                fails, retry_sleeps, history_before, restarted_for,
                gave_up >>

\* self.latest_event_time = latest_time if latest_time != 'None' else None
ApiSetEvent ==
    /\ pc = "api"
    /\ \E latest_time \in EventStrings \cup { SentinelNone, NonString } :
         latest_event_time' = store_latest(latest_time)
    /\ decision' = "none"
    /\ UNCHANGED << pc, clock, loop_vars, vm_restart_times, marked_at, api_frame >>

\* event_checker.should_restart_vm(vm)
ApiShouldRestart ==
    /\ pc = "api"
    /\ \E vm \in VMs, n \in Now :
         /\ powered_on_vms' = << vm >>
         /\ idx' = 1
         /\ clock' = n
         /\ decision' = should_restart_vm(latest_event_time, vm_restart_times,
                                           vm, n, threshold)
    /\ UNCHANGED << pc, checker_vars, api_frame >>

\* event_checker.mark_vm_restarted(vm)
ApiMark ==
    /\ pc = "api"
    /\ \E vm \in VMs, n \in Now :
         /\ powered_on_vms' = << vm >>
         /\ idx' = 1
         /\ clock' = n
         /\ vm_restart_times' = mark_vm_restarted(vm_restart_times, vm, n)
         /\ marked_at' = [v \in (DOMAIN marked_at) \cup {vm} |->
                             IF v = vm THEN n ELSE marked_at[v]]
    /\ decision' = "none"
    /\ UNCHANGED << pc, latest_event_time, api_frame >>

NextApi ==
    \/ ApiSetEvent
    \/ ApiShouldRestart
    \/ ApiMark

SpecApi == InitApi /\ [][NextApi]_vars


(***************************************************************************)
(* One call of restart_vm(vm_path) on its own, under any RESTART_DELAY and *)
(* LOCK_FILE_CLEANUP_DELAY the environment can configure                   *)
(* (int(os.getenv(...)), here not negative).  Every command it issues      *)
(* returns (subprocess.run has a timeout), so the call is never stuck at a *)
(* statement: weak fairness of its steps.                                  *)
(***************************************************************************)
Delays == 0..MaxDelay

InitRestart ==
    /\ pc = "restart_vm"
    /\ threshold = RESTART_TIME_THRESHOLD_MINUTES
    /\ restart_delay \in Delays
    /\ cleanup_delay \in Delays
    /\ dry_run = DRY_RUN
    /\ inventory = VMs
    /\ interrupted = FALSE
    /\ clock = 0
    /\ powered_on_vms \in { << v >> : v \in VMs }
    /\ idx = 1
    /\ latest_event_time = NoEvent
    /\ stored_by = NoVm
    /\ vm_restart_times = << >>
    /\ found = "none"
    /\ decision = "none"
    /\ attempt = 0
    /\ wait_i = 0
    /\ output = {}
    /\ slept = Seconds(0)
    /\ result = "none"
    /\ cmds = << >>
    /\ methods = << >>
    /\ fails = 0
    /\ retry_sleeps = 0
    /\ history_before = << >>
    /\ marked_at = << >>
    /\ restarted_for = [v \in VMs |-> {}]
    /\ gave_up = {}

NextRestart ==
    \/ RestartLoop
    \/ SoftStop
    \/ HardStop
    \/ WaitInterval
    \/ WaitProbe
    \/ StartNogui
    \/ ExtendedWait
    \/ StartRetry
    \/ RetryDelay

SpecRestart == InitRestart /\ [][NextRestart]_vars /\ WF_vars(NextRestart)


(***************************************************************************)
(* Properties                                                              *)
(***************************************************************************)
Min(a, b) == IF a <= b THEN a ELSE b

\* the statements of restart_vm and of the attempt it runs
RestartPcs == { "restart_vm", "soft_stop", "hard_stop", "wait", "wait_probe",
                "start_nogui", "extended_wait", "start_retry", "attempt_failed" }

\* the statements inside _restart_vm_single_attempt
AttemptPcs == { "soft_stop", "hard_stop", "wait", "wait_probe",
                "start_nogui", "extended_wait", "start_retry" }

\* the statements of check_event_2004 after its first command, and its return
ProbePcs == { "vmrun_copy", "vmrun_read", "fallback", "probed" }

\* how often cmd occurs in the history of the running probe / attempt
Occurrences(cmd) == Cardinality({ k \in 1..Len(cmds) : cmds[k].cmd = cmd })

LastIs(cmd) == Len(cmds) > 0 /\ cmds[Len(cmds)].cmd = cmd
LastFailed == Len(cmds) > 0 /\ ~cmds[Len(cmds)].success

\* should_restart_vm has just returned for vm_path, and nothing it read has changed
Decided == decision # "none" /\ pc \in { "decided", "api" }

vm_name == get_vm_name_from_path(vm_path)

----------------------------------------------------------------------------
\* C1: whenever restart_vm is running for a VM, restart_vm has not returned True
\* before for that VM under the event instant that is stored now: a VM is
\* restarted successfully at most once per detected event instant.
C1_AtMostOncePerEvent ==
    pc \in RestartPcs =>
        /\ latest_event_time.kind = "ts"
        /\ latest_event_time.t \notin restarted_for[vm_path]

\* a later cycle probes the instant the VM was already restarted for, and declines
C1_Witness ==
    /\ pc = "decided"
    /\ latest_event_time.kind = "ts"
    /\ latest_event_time.t \in restarted_for[vm_path]
    /\ decision = "already"

----------------------------------------------------------------------------
\* C2 (as stated): when restart_vm returns it has made min(k, max_retries)
\* attempts, k being the number of attempts that failed.
C2_AsStated ==
    pc = "restart_returned" => attempt = Min(fails, RESTART_MAX_RETRIES)

\* C2 (amended): when restart_vm returns it has made min(k + 1, max_retries)
\* attempts, k being the number of attempts that failed before the success (all
\* max_retries of them when none succeeded); it returns True exactly when the last
\* attempt succeeded, and then no further attempt is started.
C2_AttemptsMade ==
    /\ pc = "restart_returned" =>
          /\ attempt = Min(fails + 1, RESTART_MAX_RETRIES)
          /\ result \in { "true", "false" }
          /\ result = "false" => fails = RESTART_MAX_RETRIES
    /\ result = "true" =>
          /\ pc \in { "restart_returned", "mark", "vm_done" }
          /\ attempt = fails + 1
          /\ attempt <= RESTART_MAX_RETRIES
          /\ LastIs("start_nogui") \/ LastIs("start")
          /\ ~LastFailed
    /\ attempt <= RESTART_MAX_RETRIES

\* restart_vm returned True on its second attempt
C2_Witness ==
    /\ pc = "restart_returned"
    /\ result = "true"
    /\ fails = 1
    /\ attempt = 2

----------------------------------------------------------------------------
\* C3: while restart_vm runs, and after it returned False having failed
\* max_retries times, the restart history is what it was when restart_vm was
\* called, and main does not go on to mark_vm_restarted.
C3_FailedRestartLeavesHistory ==
    /\ pc \in RestartPcs => vm_restart_times = history_before
    /\ result = "false" =>
          /\ fails = RESTART_MAX_RETRIES
          /\ pc \in { "restart_returned", "vm_done" }
          /\ vm_restart_times = history_before

\* main has moved past a restart whose attempts all failed
C3_Witness ==
    /\ pc = "vm_done"
    /\ result = "false"
    /\ fails = RESTART_MAX_RETRIES


----------------------------------------------------------------------------
\* the instant recorded for the VM of the decision, when there is one
Recorded == HasRestart(vm_restart_times, vm_name)
LastRestart == vm_restart_times[vm_name]
EventKnown == latest_event_time.kind = "ts"
EventTime == latest_event_time.t
\* now - latest_event_time at the decision, in minutes
Age == clock - EventTime

\* C4: a decision taken for a VM whose recorded last-restart instant is at or
\* after the latest event instant is False, equality included.
C4_HandledEventDeclined ==
    (Decided /\ EventKnown /\ Recorded /\ LastRestart >= EventTime)
        => decision # "restart"

\* a decision declined because the restart was recorded at exactly the event instant
C4_Witness ==
    /\ Decided /\ EventKnown /\ Recorded
    /\ LastRestart = EventTime
    /\ Age <= threshold
    /\ decision = "already"

----------------------------------------------------------------------------
\* C5: a decision taken when now - t exceeds the threshold is False because the
\* event is too old, whatever the history holds; at an age of exactly the
\* threshold the event is not rejected as too old.
C5_StaleEventDeclined ==
    /\ (Decided /\ EventKnown /\ Age > threshold) => decision = "too_old"
    /\ (Decided /\ EventKnown /\ Age = threshold) => decision # "too_old"

\* a stale event declined although the recorded restart is earlier than the event
C5_Witness ==
    /\ Decided /\ EventKnown /\ Recorded
    /\ LastRestart < EventTime
    /\ Age > threshold
    /\ decision = "too_old"

----------------------------------------------------------------------------
\* C6: a decision taken with no event time known is False; a decision taken with
\* a known event time of age at most the threshold, for a VM with no recorded
\* restart or one strictly before the event instant, is True.
C6_OtherwiseRestart ==
    /\ (Decided /\ latest_event_time.kind = "none") => decision = "no_event"
    /\ (Decided /\ EventKnown /\ Age <= threshold
          /\ (~Recorded \/ LastRestart < EventTime)) => decision = "restart"

\* True at the threshold age, with a restart recorded strictly before the event
C6_Witness ==
    /\ Decided /\ EventKnown /\ Recorded
    /\ LastRestart < EventTime
    /\ Age = threshold
    /\ decision = "restart"

----------------------------------------------------------------------------
\* C7: with the event at now and no restart recorded the decision is True; and
\* once mark_vm_restarted(vm) has run at instant r, the decision for vm is False
\* for every event instant <= r, at every later time.
C7_MarkedThenDeclined ==
    /\ (Decided /\ EventKnown /\ EventTime = clock /\ ~Recorded /\ threshold >= 0)
          => decision = "restart"
    /\ \A vm \in DOMAIN marked_at : \A t \in Times : \A n \in Now :
          t <= marked_at[vm] =>
             should_restart_vm(TimeStr(t), vm_restart_times, vm, n, threshold) # "restart"
    /\ (Decided /\ EventKnown /\ vm_path \in DOMAIN marked_at
          /\ EventTime <= marked_at[vm_path]) => decision # "restart"

\* threshold 2, event at now: marked at now, and re-evaluated with the same event
C7_Witness ==
    /\ Decided /\ EventKnown
    /\ threshold = RESTART_TIME_THRESHOLD_MINUTES
    /\ vm_path \in DOMAIN marked_at
    /\ marked_at[vm_path] = clock
    /\ EventTime = clock
    /\ decision = "already"


----------------------------------------------------------------------------
\* the probe that has just returned ran into a failure: a command that did not
\* exit with 0 (timeouts included) or a file it could not parse
ProbeDegraded ==
    \/ \E k \in 1..Len(cmds) : ~cmds[k].success
    \/ "simple_fallback" \in { methods[k] : k \in 1..Len(methods) }

\* C8: check_event_2004 always returns a definite answer, and the answer is False
\* whenever the write step, the fetch step or the parse failed or timed out; after
\* a failed write step no fetch step is issued.
C8_ProbeDegradesToNotFound ==
    /\ pc = "probed" => found \in { "true", "false" }
    /\ (pc = "probed" /\ ProbeDegraded) => found = "false"
    /\ pc \in ProbePcs =>
          /\ cmds # << >>
          /\ cmds[1].cmd = "runProgramInGuest"
          /\ ~cmds[1].success => (Len(cmds) = 1 /\ pc \in { "fallback", "probed" })
          /\ Occurrences("copyFileFromGuestToHost") <= 1
          /\ pc = "vmrun_read" => \A k \in 1..Len(cmds) : cmds[k].success

\* the probe returned not-found after its write step failed
C8_Witness ==
    /\ pc = "probed"
    /\ Len(cmds) = 1
    /\ ~cmds[1].success
    /\ found = "false"

----------------------------------------------------------------------------
NotPoweredOn == Contains(output, "is not powered on")
LockedOrBusy == Contains(output, "locked") \/ Contains(output, "busy")
SoftStopFailed == Len(cmds) > 0 /\ cmds[1].cmd = "stop_soft" /\ ~cmds[1].success
Starts == Occurrences("start_nogui") + Occurrences("start")

\* C9: a hard stop is only ever issued after a soft stop whose failure does not
\* say 'not powered on'; a soft stop that fails saying so takes the attempt to the
\* wait phase, and an attempt without a hard stop only fails after a start command
\* that followed all the wait intervals.
C9_NotPoweredOnIsStopped ==
    /\ pc = "hard_stop" => (SoftStopFailed /\ ~NotPoweredOn)
    /\ (pc \in AttemptPcs /\ LastIs("stop_soft") /\ LastFailed /\ NotPoweredOn)
          => pc = "wait"
    /\ (pc \in { "wait", "wait_probe", "start_nogui" } /\ SoftStopFailed
          /\ Occurrences("stop_hard") = 0) => NotPoweredOn
    /\ (pc = "attempt_failed" /\ Occurrences("stop_hard") = 0) =>
          /\ Occurrences("start_nogui") = 1
          /\ Occurrences("sleep_interval") = wait_intervals(total_wait)

\* the soft stop failed with 'not powered on' and the attempt is about to start the VM
C9_Witness ==
    /\ pc = "start_nogui"
    /\ SoftStopFailed
    /\ NotPoweredOn
    /\ Occurrences("stop_hard") = 0
    /\ Occurrences("sleep_interval") = wait_intervals(total_wait)

----------------------------------------------------------------------------
\* C10: the extended wait and the retried (standard) start happen exactly when the
\* first start failed with a lock/busy response, once each and in that order; a
\* failed retry fails the attempt; no attempt issues more than two start commands.
C10_OneRetryOnLock ==
    /\ Starts <= 2
    /\ Occurrences("start_nogui") <= 1
    /\ Occurrences("start") <= 1
    /\ Occurrences("sleep_extended") <= 1
    /\ (pc \in AttemptPcs \cup { "attempt_failed" } /\ LastIs("start_nogui")
          /\ LastFailed) => (pc = "extended_wait" <=> LockedOrBusy)
    /\ pc = "extended_wait" => LastIs("start_nogui") /\ LastFailed /\ LockedOrBusy
    /\ pc = "start_retry" =>
          /\ LastIs("sleep_extended")
          /\ cmds[Len(cmds) - 1].cmd = "start_nogui"
          /\ ~cmds[Len(cmds) - 1].success
    /\ LastIs("start") =>
          /\ cmds[Len(cmds) - 1].cmd = "sleep_extended"
          /\ cmds[Len(cmds) - 2].cmd = "start_nogui"
          /\ ~cmds[Len(cmds) - 2].success
          /\ LastFailed =>
                (result # "true" /\ pc \in { "attempt_failed", "restart_vm",
                                             "restart_returned", "vm_done" })

\* the retried start failed as well, still locked: the attempt has failed
C10_Witness ==
    /\ pc = "attempt_failed"
    /\ LastIs("start")
    /\ LastFailed
    /\ LockedOrBusy
    /\ Starts = 2

----------------------------------------------------------------------------
\* C11: a soft stop that fails without saying 'not powered on' (lock/busy or any
\* other failure) is followed by one hard stop, and an attempt issues at most one;
\* a failed hard stop fails the attempt before any start command, a successful one
\* takes the attempt to the wait phase.
C11_HardStopEscalation ==
    /\ Occurrences("stop_hard") <= 1
    /\ (pc \in AttemptPcs /\ LastIs("stop_soft") /\ LastFailed /\ ~NotPoweredOn)
          => pc = "hard_stop"
    /\ pc = "hard_stop" => (Len(cmds) = 1 /\ SoftStopFailed)
    /\ (pc \in AttemptPcs \cup { "attempt_failed" } /\ LastIs("stop_hard")) =>
          /\ Len(cmds) = 2 /\ SoftStopFailed
          /\ LastFailed => (pc = "attempt_failed" /\ Starts = 0)
          /\ ~LastFailed => (pc = "wait" /\ wait_i = 0)
    /\ (Occurrences("stop_hard") = 1 /\ ~cmds[2].success) =>
          (Starts = 0 /\ Occurrences("sleep_interval") = 0 /\ result # "true")

\* the soft stop failed on a lock, the hard stop failed too: the attempt has failed
C11_Witness ==
    /\ pc = "attempt_failed"
    /\ Len(cmds) = 2
    /\ SoftStopFailed
    /\ LastIs("stop_hard")
    /\ LastFailed
    /\ Starts = 0

----------------------------------------------------------------------------
\* the stop phase of the running attempt concluded: the soft stop succeeded, or it
\* failed and no hard stop was needed ('not powered on'), or the hard stop succeeded
StopConcluded ==
    /\ Len(cmds) > 0
    /\ cmds[1].cmd = "stop_soft"
    /\ \/ cmds[1].success
       \/ Occurrences("stop_hard") = 0
       \/ (Len(cmds) > 1 /\ cmds[2].cmd = "stop_hard" /\ cmds[2].success)

\* the start phase of the running attempt succeeded: the first start did, or it
\* failed and the one retried start did
StartSucceeded ==
    /\ Len(cmds) > 0
    /\ ~LastFailed
    /\ \/ LastIs("start_nogui") /\ Starts = 1
       \/ /\ LastIs("start") /\ Starts = 2
          /\ Occurrences("start_nogui") = 1
          /\ \E k \in 1..Len(cmds) : cmds[k].cmd = "start_nogui" /\ ~cmds[k].success

\* C12: an attempt returns True exactly when its stop phase concluded and its
\* start phase succeeded; a first start that fails with a timeout response or any
\* other text than lock/busy fails the attempt with no second start; restart_vm
\* returns True only right after a successful start command, its last command.
C12_AttemptOutcome ==
    /\ (pc = "restart_returned" /\ result = "true") => (StopConcluded /\ StartSucceeded)
    /\ pc = "attempt_failed" => ~(StopConcluded /\ StartSucceeded)
    /\ (pc \in AttemptPcs /\ StopConcluded /\ StartSucceeded) => FALSE
    /\ (pc \in AttemptPcs \cup { "attempt_failed" } /\ LastIs("start_nogui")
          /\ LastFailed /\ ~LockedOrBusy) => (pc = "attempt_failed" /\ Starts = 1)
    /\ result = "true" =>
          /\ pc \in { "restart_returned", "mark", "vm_done" }
          /\ StartSucceeded

\* the first start answered with a timeout text: the attempt failed after one start
C12_Witness ==
    /\ pc = "attempt_failed"
    /\ LastIs("start_nogui")
    /\ LastFailed
    /\ Contains(output, "timeout")
    /\ Starts = 1

----------------------------------------------------------------------------
\* a step of restart_vm that is not cut short by KeyboardInterrupt
Uninterrupted == pc' # "stopped"

\* C13: whatever made an attempt fail, restart_vm goes back to its loop, and the
\* loop starts the next attempt as long as attempts remain; restart_vm returns
\* False only when max_retries attempts have failed.
C13_AllRetriesAttempted ==
    /\ [](pc = "restart_vm" => fails = attempt)
    /\ []((pc = "restart_returned" /\ result = "false") =>
            (attempt = RESTART_MAX_RETRIES /\ fails = RESTART_MAX_RETRIES))
    /\ [][(pc = "attempt_failed" /\ Uninterrupted) =>
            (pc' = "restart_vm" /\ attempt' = attempt /\ fails' = fails + 1)]_vars
    /\ [][(pc = "restart_vm" /\ attempt < RESTART_MAX_RETRIES /\ Uninterrupted) =>
            (pc' = "soft_stop" /\ attempt' = attempt + 1)]_vars

\* the first attempt failed on its hard stop, restart_vm has slept the retry delay
\* and is back at its loop with two attempts left
C13_Witness ==
    /\ pc = "restart_vm"
    /\ attempt = 1
    /\ fails = 1
    /\ retry_sleeps = 1
    /\ LastIs("stop_hard")
    /\ LastFailed

----------------------------------------------------------------------------
\* the statements main runs for one VM of the list
PerVmPcs == { "check_event", "vmrun_copy", "vmrun_read", "fallback", "probed",
              "should_restart", "decided", "restart_returned", "mark", "vm_done" }
             \cup RestartPcs

\* C14: an exception raised while a VM is processed ends that VM's processing
\* only; main goes through the list once, in order, one VM after the other
\* whatever the probe, the decision or the restart of the earlier VMs did, then
\* sleeps and starts the next cycle.
C14_PerVmIsolation ==
    /\ [](pc \in PerVmPcs =>
            (idx \in 1..Len(powered_on_vms) /\ Injective(powered_on_vms)))
    /\ [][(pc = "decided" /\ decision = "raised" /\ Uninterrupted) =>
            (pc' = "vm_done" /\ idx' = idx)]_vars
    /\ [][(pc \in PerVmPcs /\ Uninterrupted) =>
            /\ powered_on_vms' = powered_on_vms \/ (pc = "vm_done" /\ pc' = "sleep")
            /\ pc' \in PerVmPcs \/ (pc = "vm_done" /\ pc' = "sleep")
            /\ idx' # idx => pc = "vm_done"]_vars
    /\ [][(pc = "vm_done" /\ Uninterrupted) =>
            IF idx < Len(powered_on_vms)
            THEN pc' = "check_event" /\ idx' = idx + 1
            ELSE pc' = "sleep"]_vars
    /\ [][(pc' = "check_event" /\ pc # "check_event") =>
            \/ pc = "cycle" /\ idx' = 1
            \/ pc = "vm_done" /\ idx' = idx + 1]_vars
    /\ [][(pc = "sleep" /\ Uninterrupted) => pc' = "cycle"]_vars

\* should_restart_vm raised for the first VM of a list of two, and main is
\* about to go on to the second
C14_Witness ==
    /\ pc = "vm_done"
    /\ decision = "raised"
    /\ idx = 1
    /\ Len(powered_on_vms) = 2

----------------------------------------------------------------------------
StopStartCmds == { "stop_soft", "stop_hard", "start_nogui", "start" }

\* C15 (as stated): with the dry-run flag set no stop or start command is issued,
\* while the probe and should_restart_vm still run.
C15_DryRunSuppresses ==
    dry_run => \A k \in 1..Len(cmds) : cmds[k].cmd \notin StopStartCmds

\* with the flag set the decision logic runs and returns True
C15_Witness ==
    /\ dry_run
    /\ pc = "decided"
    /\ found = "true"
    /\ decision = "restart"

----------------------------------------------------------------------------
\* C16 (as stated): restart_vm returns False once max_retries attempts have
\* failed, and after that no stop or start command is issued again for the same VM
\* and the same event instant.
C16_FailureIsTerminal ==
    /\ result = "false" => fails = RESTART_MAX_RETRIES
    /\ pc \in RestartPcs =>
          [vm |-> vm_path, t |-> latest_event_time.t] \notin gave_up

\* restart_vm has given up on a VM and reported the failure to main
C16_Witness ==
    /\ pc = "restart_returned"
    /\ result = "false"
    /\ fails = RESTART_MAX_RETRIES
    /\ [vm |-> vm_path, t |-> latest_event_time.t] \in gave_up

----------------------------------------------------------------------------
\* every entry of the restart history is the instant a completed
\* mark_vm_restarted wrote under that name
HistoryFromMarks ==
    /\ DOMAIN vm_restart_times = { get_vm_name_from_path(v) : v \in DOMAIN marked_at }
    /\ \A n \in DOMAIN vm_restart_times :
          \E v \in DOMAIN marked_at :
             get_vm_name_from_path(v) = n /\ marked_at[v] = vm_restart_times[n]

\* C17 (as stated): once a KeyboardInterrupt has been raised, wherever the poll
\* loop was, the monitor has stopped (and so issues no further command), and the
\* restart history holds only what completed mark_vm_restarted calls wrote.
C17_InterruptStops ==
    /\ interrupted => pc = "stopped"
    /\ HistoryFromMarks

\* interrupted between a successful restart and the history update: the monitor
\* has stopped and the history has no entry for the restarted VM
C17_Witness ==
    /\ pc = "stopped"
    /\ interrupted
    /\ \E v \in VMs : /\ restarted_for[v] # {}
                       /\ get_vm_name_from_path(v) \notin DOMAIN vm_restart_times

----------------------------------------------------------------------------
\* C18: the vmrun script is tried first and the simple fallback second, the
\* fallback only while the vmrun script has given no answer; an answer of the
\* vmrun script is what check_event_2004 returns, and the answer of the fallback
\* (False) is returned only when the vmrun script gave none.
C18_FirstAnswerWins ==
    /\ pc \in { "vmrun_copy", "vmrun_read", "fallback" } =>
          (methods = << "vmrun_script" >> /\ found = "none")
    /\ pc = "probed" =>
          \/ /\ methods = << "vmrun_script" >>
             /\ found \in { "true", "false" }
             /\ Len(cmds) = 2
             /\ \A k \in 1..Len(cmds) : cmds[k].success
          \/ /\ methods = << "vmrun_script", "simple_fallback" >>
             /\ found = "false"
    /\ found = "true" => methods = << "vmrun_script" >>

\* the vmrun script answered False: check_event_2004 returned without the fallback
C18_Witness ==
    /\ pc = "probed"
    /\ methods = << "vmrun_script" >>
    /\ found = "false"

----------------------------------------------------------------------------
\* the result of _run_vmrun_command for every way the process can end, and the
\* branch each caller of the restart state machine takes on a timed-out command
RunnerContract ==
    \A o \in ProcOutcomes :
       LET r == run_vmrun_command(o)
       IN  /\ r.success \in BOOLEAN
           /\ r.success <=> (o.kind = "exit" /\ o.code = 0)
           /\ o.kind \in { "timeout", "error" } => ~r.success
           /\ o.kind = "timeout" =>
                 /\ soft_stop_branch(r) = "hard_stop"
                 /\ hard_stop_branch(r) = "attempt_failed"
                 /\ start_branch(r) = "attempt_failed"
                 /\ start_retry_branch(r) = "attempt_failed"
                 /\ \A listing \in VmLists(VMs) : get_powered_on_vms(r, listing) = << >>

\* C19: _run_vmrun_command always returns a (success, output) pair, with success
\* exactly for a process that exited with code 0; a timeout and a spawn error are
\* failures, and each caller of the restart state machine takes the failure branch
\* for the result of a timed-out command.
C19_RunnerReportsExitCode ==
    /\ RunnerContract
    /\ (pc \in AttemptPcs \cup { "attempt_failed" } /\ LastFailed
          /\ output = CommandTimedOut) =>
             \/ LastIs("stop_soft") /\ pc = "hard_stop"
             \/ LastIs("stop_hard") /\ pc = "attempt_failed"
             \/ LastIs("start_nogui") /\ pc = "attempt_failed"
             \/ LastIs("start") /\ pc = "attempt_failed"
             \* the `list` of the wait loop: logged as failed, and nothing depends on it
             \/ LastIs("list") /\ pc \in { "wait", "start_nogui" }

\* a soft stop came back with the result of a timed-out command, and the attempt
\* escalates to the hard stop
C19_Witness ==
    /\ pc = "hard_stop"
    /\ LastIs("stop_soft")
    /\ LastFailed
    /\ output = CommandTimedOut

----------------------------------------------------------------------------
----------------------------------------------------------------------------
StopCmds == { "stop_soft", "stop_hard" }
StartCmds == { "start_nogui", "start" }

\* the wait intervals slept before command k of the running attempt
IntervalsBefore(k) ==
    Cardinality({ j \in 1..(k - 1) : cmds[j].cmd = "sleep_interval" })

\* C21: within an attempt every start command comes after a concluded stop phase
\* and after all the wait intervals, every wait interval comes after the stop
\* commands, and no stop command comes after a wait interval or a start command.
C21_StopWaitStart ==
    /\ \A k \in 1..Len(cmds) :
          cmds[k].cmd \in StartCmds =>
             /\ StopConcluded
             /\ IntervalsBefore(k) = wait_intervals(total_wait)
             /\ \A j \in 1..Len(cmds) : cmds[j].cmd \in StopCmds => j < k
    /\ \A k \in 1..Len(cmds) :
          cmds[k].cmd \in { "sleep_interval", "list" } =>
             /\ pc \in RestartPcs \cup { "restart_returned", "mark", "vm_done" }
             /\ StopConcluded
             /\ \A j \in 1..Len(cmds) : cmds[j].cmd \in StopCmds => j < k
    /\ pc \in { "start_nogui", "extended_wait", "start_retry" } =>
          /\ StopConcluded
          /\ Occurrences("sleep_interval") = wait_intervals(total_wait)
    /\ pc \in { "soft_stop", "hard_stop" } =>
          /\ Starts = 0
          /\ Occurrences("sleep_interval") = 0

\* an attempt that went through all three phases: soft stop failed, hard stop
\* succeeded, every interval waited, then the start (which failed)
C21_Witness ==
    /\ pc = "attempt_failed"
    /\ Len(cmds) > 2
    /\ SoftStopFailed
    /\ cmds[2].cmd = "stop_hard" /\ cmds[2].success
    /\ Occurrences("sleep_interval") = wait_intervals(total_wait)
    /\ LastIs("start_nogui")
    /\ LastFailed

----------------------------------------------------------------------------
\* the wait loop of the running attempt is over
WaitOver ==
    \/ pc \in { "start_nogui", "extended_wait", "start_retry" }
    \/ pc \in { "attempt_failed", "restart_returned" } /\ Starts > 0

----------------------------------------------------------------------------
\* the 0-based index of the wait interval that entry k of cmds is
IntervalIndex(k) == IntervalsBefore(k)

\* C23: a `list` probe is issued right after a wait interval whose index i is
\* even and greater than 0, and after every such interval, never after the first;
\* the step that issues it only adds the probe to the log and moves the loop on:
\* where the attempt continues, its output, its result and everything else are the
\* same whether the probe succeeded, failed or timed out, and an attempt never
\* fails on a probe.
C23_ProbeIsDiagnostic ==
    /\ [](\A k \in 1..Len(cmds) :
            cmds[k].cmd = "list" =>
               /\ k > 1
               /\ cmds[k - 1].cmd = "sleep_interval"
               /\ IntervalIndex(k - 1) > 0
               /\ IntervalIndex(k - 1) % 2 = 0)
    /\ [](\A k \in 1..Len(cmds) :
            (cmds[k].cmd = "sleep_interval" /\ IntervalIndex(k) > 0
               /\ IntervalIndex(k) % 2 = 0) =>
               IF k < Len(cmds) THEN cmds[k + 1].cmd = "list" ELSE pc = "wait_probe")
    /\ []((pc \in AttemptPcs \cup { "attempt_failed", "restart_returned" }
             /\ LastIs("list")) => pc \in { "wait", "start_nogui" })
    /\ [][(pc = "wait_probe" /\ Uninterrupted) =>
            /\ pc' = after_interval(wait_i)
            /\ wait_i' = wait_i + 1
            /\ Len(cmds') = Len(cmds) + 1
            /\ SubSeq(cmds', 1, Len(cmds)) = cmds
            /\ cmds'[Len(cmds')].cmd = "list"
            /\ UNCHANGED << output, slept, result, attempt, fails, retry_sleeps,
                            main_vars, threshold, restart_delay, cleanup_delay,
                            dry_run, inventory, interrupted, restarted_for, gave_up >>]_vars

\* two probes were issued, the first failed and the second succeeded, and the
\* attempt went on to start the VM and returned True
C23_Witness ==
    /\ pc = "restart_returned"
    /\ result = "true"
    /\ Occurrences("list") = 2
    /\ \E k \in 1..Len(cmds) : \E j \in 1..Len(cmds) :
          /\ k < j
          /\ cmds[k].cmd = "list" /\ ~cmds[k].success
          /\ cmds[j].cmd = "list" /\ cmds[j].success

----------------------------------------------------------------------------
\* restart_vm has returned, True or False
Returned == pc = "restart_returned" /\ result \in { "true", "false" }

\* the `list` probes a wait loop of n intervals issues: after the intervals 2, 4, ...
ProbesOf(n) == (n - 1) \div 2

\* C24: a call of restart_vm whose commands all return does return; it never runs
\* more than max_retries attempts, and an attempt issues at most one soft and one
\* hard stop, at most two start commands, and no more probes than its wait loop
\* has intervals of even index greater than 0.
C24_RestartTerminates ==
    /\ <>Returned
    /\ [](attempt \in 0..RESTART_MAX_RETRIES)
    /\ [](fails \in 0..RESTART_MAX_RETRIES)
    /\ [](/\ Occurrences("stop_soft") <= 1
          /\ Occurrences("stop_hard") <= 1
          /\ Occurrences("stop_soft") + Occurrences("stop_hard") <= 2
          /\ Starts <= 2
          /\ Occurrences("sleep_interval") <= wait_intervals(total_wait)
          /\ Occurrences("list") <= ProbesOf(wait_intervals(total_wait))
          /\ Occurrences("sleep_extended") <= 1)
    /\ [](Returned => (pc = "restart_returned" /\ attempt >= 1))

\* restart_vm returned False after three attempts, the last of which used both
\* stop commands and both start commands
C24_Witness ==
    /\ Returned
    /\ result = "false"
    /\ attempt = RESTART_MAX_RETRIES
    /\ Occurrences("stop_soft") + Occurrences("stop_hard") = 2
    /\ Starts = 2
    /\ Occurrences("list") = ProbesOf(wait_intervals(total_wait))
    /\ Occurrences("list") > 0

----------------------------------------------------------------------------
\* C25: the retry delay is slept after a failed attempt exactly when attempts
\* remain: while attempt k runs, and when it has just failed, k - 1 delays have
\* been slept; back at the loop after f failed attempts min(f, max_retries - 1)
\* have; a restart whose attempts all failed has slept max_retries - 1 delays, none
\* after the last attempt; a restart that succeeded on attempt k has slept k - 1,
\* none after the successful attempt.
C25_DelayBetweenAttempts ==
    /\ pc \in AttemptPcs \cup { "attempt_failed" } =>
          /\ retry_sleeps = attempt - 1
          /\ fails = attempt - 1
    /\ pc = "restart_vm" =>
          /\ fails = attempt
          /\ retry_sleeps = Min(fails, RESTART_MAX_RETRIES - 1)
          /\ (retry_sleeps = fails) <=> (attempt < RESTART_MAX_RETRIES)
    /\ (Returned /\ result = "false") =>
          /\ fails = RESTART_MAX_RETRIES
          /\ retry_sleeps = RESTART_MAX_RETRIES - 1
    /\ (Returned /\ result = "true") =>
          /\ fails = attempt - 1
          /\ retry_sleeps = attempt - 1

\* every attempt failed: restart_vm is about to return False, having slept the
\* retry delay after the first and the second failure and not after the third
C25_Witness ==
    /\ pc = "restart_vm"
    /\ attempt = RESTART_MAX_RETRIES
    /\ fails = RESTART_MAX_RETRIES
    /\ retry_sleeps = RESTART_MAX_RETRIES - 1

----------------------------------------------------------------------------
\* C26 (as stated): a step that records a restart of one VM leaves the decision
\* of should_restart_vm unchanged for every VM of the host with another path,
\* whatever the latest event and the time are, also for a VM whose .vmx file has
\* the same name in another directory.
C26_HistoryPerPath ==
    [][vm_restart_times' # vm_restart_times =>
          \A other \in inventory \ { vm_path } :
             \A latest \in EventStrings \cup { NoEvent } : \A n \in Times :
                should_restart_vm(latest, vm_restart_times', other, n, threshold)
                   = should_restart_vm(latest, vm_restart_times, other, n, threshold)]_vars

\* the monitor declines to restart a VM as already restarted for this event,
\* although no restart of that VM has ever been recorded
C26_Witness ==
    /\ pc = "decided"
    /\ decision = "already"
    /\ vm_path \notin DOMAIN marked_at
    /\ restarted_for[vm_path] = {}

----------------------------------------------------------------------------
\* C27: should_restart_vm is only evaluated for the VM whose probe, in the same
\* pass of the for loop, has just returned True, and that probe is the one that
\* assigned the latest event time the decision reads; between the assignment and
\* the decision (and the restart it leads to) nothing writes the field.
C27_DecisionUsesOwnProbe ==
    /\ [](pc \in { "should_restart", "decided" } \cup RestartPcs
                 \cup { "restart_returned", "mark" } =>
            /\ found = "true"
            /\ methods = << "vmrun_script" >>
            /\ stored_by = vm_path)
    /\ [][(pc' = "should_restart" /\ pc # "should_restart") =>
            (pc = "probed" /\ found = "true" /\ idx' = idx
               /\ latest_event_time' = latest_event_time)]_vars
    /\ [][latest_event_time' # latest_event_time =>
            (pc = "vmrun_read" /\ stored_by' = vm_path
               /\ pc' \in { "probed", "fallback" })]_vars
    /\ [][(stored_by # NoVm /\ stored_by' # stored_by) =>
            (pc' \in { "check_event", "sleep", "stopped" } /\ stored_by' = NoVm)]_vars

\* the second VM of the list is being decided on the event its own probe stored,
\* the first VM having stored another one in the same cycle
C27_Witness ==
    /\ pc = "decided"
    /\ idx = 2
    /\ stored_by = vm_path
    /\ latest_event_time.kind = "ts"
    /\ restarted_for[powered_on_vms[1]] # {}
    /\ latest_event_time.t \notin restarted_for[powered_on_vms[1]]

----------------------------------------------------------------------------
\* C28 (as stated): when check_event_2004 has returned, the latest event time is
\* the one this probe assigned, the fallback included, and it is None when the
\* probe found no event.
C28_ProbeOverwrites ==
    pc = "probed" =>
       /\ stored_by = vm_path
       /\ found = "false" => latest_event_time = NoEvent

\* a probe that degraded to the fallback has returned False, and the latest
\* event time still is the instant an earlier probe stored
C28_Witness ==
    /\ pc = "probed"
    /\ methods = << "vmrun_script", "simple_fallback" >>
    /\ found = "false"
    /\ stored_by = NoVm
    /\ latest_event_time.kind = "ts"

----------------------------------------------------------------------------
\* C29: a failed soft stop that says 'not powered on' takes the attempt to the
\* wait phase, whereas a failed hard stop fails the attempt whatever its output
\* says, 'not powered on' included: the attempt returns False right after it, with
\* no wait interval and no start command.
C29_HardStopNotTolerated ==
    /\ (pc \in AttemptPcs /\ LastIs("stop_soft") /\ LastFailed /\ NotPoweredOn)
          => (pc = "wait" /\ Occurrences("stop_hard") = 0)
    /\ (pc \in AttemptPcs \cup { "attempt_failed" } /\ LastIs("stop_hard")
          /\ LastFailed) => pc = "attempt_failed"
    /\ \A k \in 1..Len(cmds) :
          (cmds[k].cmd = "stop_hard" /\ ~cmds[k].success) =>
             /\ k = Len(cmds)
             /\ Starts = 0
             /\ Occurrences("sleep_interval") = 0
             /\ pc \in { "attempt_failed", "restart_vm", "restart_returned", "vm_done" }
             /\ result # "true"

\* the hard stop answered 'not powered on': the attempt has failed without a start
C29_Witness ==
    /\ pc = "attempt_failed"
    /\ LastIs("stop_hard")
    /\ LastFailed
    /\ NotPoweredOn
    /\ Starts = 0

====
